---- MODULE Spec2Model ----
(***************************************************************************)
(* A model of lawg.py's synchronous REST layer: lawg.syncio.rest.Rest, the *)
(* call sites of lawg.syncio.client.Client that go through Rest.request,   *)
(* and the request/response preparation of lawg.base.rest.BaseRest.        *)
(*                                                                         *)
(* One operation is one blocking call: the operation builds its body and   *)
(* slug dictionaries, Rest.request prepares the request, hands it to the   *)
(* transport once and prepares the response.  The transport's answer is an *)
(* input of the operation.                                                 *)
(*                                                                         *)
(* Spec runs the operations one blocking call at a time.  DeleteSpec runs  *)
(* delete operations in a row.  ClientSpec interleaves two threads on one  *)
(* client at the blocking transport call.  HandleSpec and ThreadedSpec run *)
(* the methods of the Project and Event handles (lawg.syncio.project,      *)
(* lawg.syncio.event), one call at a time and with two threads.            *)
(***************************************************************************)
EXTENDS Naturals, Sequences, FiniteSets, TLC

VARIABLES
    pc,        \* "idle": the caller is between two operations; "done": one has ended
    op,        \* the operation that ended last ("" when idle)
    args,      \* the arguments it was called with, by parameter name
    call,      \* the arguments Rest.request was invoked with
    sent,      \* the requests handed to the transport by this operation, in order
    response,  \* what the transport answered to this operation
    outcome,   \* how the operation ended: a returned value or a raised error
    calls,     \* number of requests handed to the transport since construction
    deletes,   \* the delete operations called in a row on the client, in order
    session,   \* the client's transport session, shared by every operation
    tasks,     \* per thread: the operation it runs on the shared client
    handles,   \* the fields of the Project handle and of the Event handle
    callers,   \* per thread: the handle method it runs
    tally      \* per handle: delete requests issued and delete requests succeeded

vars == <<pc, op, args, call, sent, response, outcome, calls,
          deletes, session, tasks, handles, callers, tally>>
\* What one blocking call of the single caller leaves alone.
beyond == <<deletes, session, tasks, handles, callers, tally>>

\* ---------------------------------------------------------------- bounds

\* Operations start only while fewer than MaxCalls requests were issued.
MaxCalls == 2
\* Longest `data` list a response carries.
MaxList == 2

\* ---------------------------------------------------------------- values

\* A field value is a tagged scalar; numbers keep their decimal text.
UNDEFINED == [k |-> "undefined", v |-> ""]
None == [k |-> "null", v |-> ""]
Str(s) == [k |-> "str", v |-> s]
Num(s) == [k |-> "num", v |-> s]
\* A mapping-valued argument (an insight's value, e.g. {"set": 7.0}), named by its key.
Map(s) == [k |-> "map", v |-> s]

\* The empty mapping {}.
EmptyMap == <<>>

\* ---------------------------------------------------------------- schemas

\* A schema declares required and optional fields and the kind of each.
Schema(name, required, optional, kinds) ==
    [name |-> name, required |-> required, optional |-> optional, kinds |-> kinds]

Strings(S) == [f \in S |-> "str"]

NoSchema == Schema("", {}, {}, EmptyMap)

\* DataWithSchema(data, schema), and its absence (None).
DataWithSchema(data, schema) == [given |-> TRUE, data |-> data, schema |-> schema]
NoData == [given |-> FALSE, data |-> EmptyMap, schema |-> NoSchema]

\* Body schemas: one per resource and operation.
ProjectCreateBodySchema ==
    Schema("ProjectCreateBodySchema", {"namespace", "name"}, {}, Strings({"namespace", "name"}))
ProjectPatchBodySchema ==
    Schema("ProjectPatchBodySchema", {}, {"name"}, Strings({"name"}))
ProjectBodySchema ==
    Schema("ProjectBodySchema", {"namespace", "name"}, {}, Strings({"namespace", "name"}))
FeedCreateBodySchema ==
    Schema("FeedCreateBodySchema", {"name"}, {"description", "emoji"},
           Strings({"name", "description", "emoji"}))
FeedPatchBodySchema ==
    Schema("FeedPatchBodySchema", {}, {"name", "description", "emoji"},
           Strings({"name", "description", "emoji"}))
LogCreateBodySchema ==
    Schema("LogCreateBodySchema", {"title"}, {"description", "emoji"},
           Strings({"title", "description", "emoji"}))
LogPatchBodySchema ==
    Schema("LogPatchBodySchema", {}, {"title", "description", "emoji"},
           Strings({"title", "description", "emoji"}))
LogGetMultipleBodySchema ==
    Schema("LogGetMultipleBodySchema", {}, {"limit", "offset"},
           [f \in {"limit", "offset"} |-> "num"])
InsightCreateBodySchema ==
    Schema("InsightCreateBodySchema", {"title"}, {"description", "emoji", "value"},
           ("value" :> "num") @@ Strings({"title", "description", "emoji"}))
InsightPatchBodySchema ==
    Schema("InsightPatchBodySchema", {}, {"title", "description", "emoji", "value"},
           ("value" :> "map") @@ Strings({"title", "description", "emoji"}))
InsightGetMultipleBodySchema ==
    Schema("InsightGetMultipleBodySchema", {}, {"limit", "offset"},
           [f \in {"limit", "offset"} |-> "num"])
\* The shape of an insight's value mapping: it declares no slug.
InsightValueSchema ==
    Schema("InsightValueSchema", {}, {"set", "increment"},
           [f \in {"set", "increment"} |-> "num"])

\* Slug schemas: every slug is a required string.
SlugSchema(name, slugs) == Schema(name, slugs, {}, Strings(slugs))

ProjectGetSlugSchema == SlugSchema("ProjectGetSlugSchema", {"namespace"})
ProjectPatchSlugSchema == SlugSchema("ProjectPatchSlugSchema", {"namespace"})
ProjectDeleteSlugSchema == SlugSchema("ProjectDeleteSlugSchema", {"namespace"})
FeedCreateSlugSchema == SlugSchema("FeedCreateSlugSchema", {"namespace"})
FeedPatchSlugSchema == SlugSchema("FeedPatchSlugSchema", {"namespace", "feed"})
FeedDeleteSlugSchema == SlugSchema("FeedDeleteSlugSchema", {"namespace", "feed"})
LogCreateSlugSchema == SlugSchema("LogCreateSlugSchema", {"namespace", "feed"})
LogGetSlugSchema == SlugSchema("LogGetSlugSchema", {"namespace", "feed", "log_id"})
LogGetMultipleSlugSchema == SlugSchema("LogGetMultipleSlugSchema", {"namespace", "feed"})
LogPatchSlugSchema == SlugSchema("LogPatchSlugSchema", {"namespace", "feed", "log_id"})
LogDeleteSlugSchema == SlugSchema("LogDeleteSlugSchema", {"namespace", "feed", "log_id"})
InsightCreateSlugSchema == SlugSchema("InsightCreateSlugSchema", {"namespace"})
InsightGetSlugSchema == SlugSchema("InsightGetSlugSchema", {"namespace", "insight_id"})
InsightPatchSlugSchema == SlugSchema("InsightPatchSlugSchema", {"namespace", "insight_id"})

\* Entity schemas: the records a response carries, with an id, the ids of the
\* parents and the resource's own fields.
EntitySchema(name, fields) == Schema(name, fields, {}, Strings(fields))

ProjectSchema == EntitySchema("ProjectSchema", {"id", "namespace", "name"})
FeedSchema == EntitySchema("FeedSchema", {"id", "project_id", "name"})
LogSchema == EntitySchema("LogSchema", {"id", "project_id", "feed_id", "title"})
InsightSchema == EntitySchema("InsightSchema", {"id", "project_id", "title"})

\* A response schema as Rest.request receives it: Schema(), Schema(many=True) or None.
One(schema) == [given |-> TRUE, schema |-> schema, many |-> FALSE]
Many(schema) == [given |-> TRUE, schema |-> schema, many |-> TRUE]
NoResponseSchema == [given |-> FALSE, schema |-> NoSchema, many |-> FALSE]

\* ---------------------------------------------------------------- validation

\* Text that a number field parses as a number.
Numeric == {"5", "7"}

\* What a field of kind `kind` makes of a value: a number field turns numeric
\* text into the number, every other value is kept as it is.
Deserialize(kind, value) ==
    IF kind = "num" /\ value.k = "str" /\ value.v \in Numeric
    THEN Num(value.v) ELSE value

\* The fields of `data` that `schema` rejects: unknown fields, required fields
\* that are missing, null or empty, and fields of the wrong kind.  A null is
\* accepted for an optional field.
Offending(schema, data) ==
    LET declared == schema.required \cup schema.optional
    IN  {f \in DOMAIN data : f \notin declared}
        \cup {f \in schema.required :
                \/ f \notin DOMAIN data
                \/ data[f] = None
                \/ data[f] = Str("")}
        \cup {f \in (DOMAIN data) \cap declared :
                /\ data[f] # None
                /\ Deserialize(schema.kinds[f], data[f]).k # schema.kinds[f]}

\* schema.load(data): the normalized mapping, each declared field deserialized
\* by its kind.
Load(schema, data) ==
    [f \in DOMAIN data |->
        IF f \in DOMAIN schema.kinds THEN Deserialize(schema.kinds[f], data[f])
        ELSE data[f]]

\* ---------------------------------------------------------------- errors

NoError == [type |-> "", msg |-> "", fields |-> {}]
ValidationError(fields) == [type |-> "ValidationError", msg |-> "", fields |-> fields]
TransportError == [type |-> "TransportError", msg |-> "", fields |-> {}]
APIError(msg) == [type |-> "APIError", msg |-> msg, fields |-> {}]
\* A programmer error: a placeholder of the URL template has no slug.
MissingSlugError(names) == [type |-> "MissingSlugError", msg |-> "", fields |-> names]

\* A payload: nothing, one record, or a list of records.
Nothing == [k |-> "absent", items |-> <<>>]
Record(r) == [k |-> "record", items |-> <<r>>]
List(rs) == [k |-> "list", items |-> rs]

Return(value) == [kind |-> "return", error |-> NoError, value |-> value]
Raise(error) == [kind |-> "raise", error |-> error, value |-> Nothing]

\* ---------------------------------------------------------------- URLs

\* A URL is a sequence of segments: literal text, a {placeholder}, or a
\* substituted slug value.
Lit(s) == [k |-> "lit", s |-> s]
Ph(name) == [k |-> "ph", s |-> name]
Val(s) == [k |-> "val", s |-> s]

API_CREATE_PROJECT == <<Lit("/projects")>>
API_GET_PROJECT == <<Lit("/projects/"), Ph("namespace")>>
API_EDIT_PROJECT == <<Lit("/projects/"), Ph("namespace")>>
API_DELETE_PROJECT == <<Lit("/projects/"), Ph("namespace")>>
API_CREATE_FEED == <<Lit("/projects/"), Ph("namespace"), Lit("/feeds")>>
API_EDIT_FEED == <<Lit("/projects/"), Ph("namespace"), Lit("/feeds/"), Ph("feed")>>
API_DELETE_FEED == <<Lit("/projects/"), Ph("namespace"), Lit("/feeds/"), Ph("feed")>>
API_CREATE_LOG ==
    <<Lit("/projects/"), Ph("namespace"), Lit("/feeds/"), Ph("feed"), Lit("/logs")>>
API_GET_LOGS ==
    <<Lit("/projects/"), Ph("namespace"), Lit("/feeds/"), Ph("feed"), Lit("/logs")>>
API_GET_LOG ==
    <<Lit("/projects/"), Ph("namespace"), Lit("/feeds/"), Ph("feed"), Lit("/logs/"), Ph("log_id")>>
API_EDIT_LOG ==
    <<Lit("/projects/"), Ph("namespace"), Lit("/feeds/"), Ph("feed"), Lit("/logs/"), Ph("log_id")>>
API_DELETE_LOG ==
    <<Lit("/projects/"), Ph("namespace"), Lit("/feeds/"), Ph("feed"), Lit("/logs/"), Ph("log_id")>>
API_CREATE_INSIGHT == <<Lit("/projects/"), Ph("namespace"), Lit("/insights")>>
API_GET_INSIGHTS == <<Lit("/projects/"), Ph("namespace"), Lit("/insights")>>
API_EDIT_INSIGHT ==
    <<Lit("/projects/"), Ph("namespace"), Lit("/insights/"), Ph("insight_id")>>
API_DELETE_INSIGHT ==
    <<Lit("/projects/"), Ph("namespace"), Lit("/insights/"), Ph("insight_id")>>

\* The names of the placeholders of a template.
Placeholders(url) == {url[i].s : i \in {j \in DOMAIN url : url[j].k = "ph"}}

\* Percent-escaping of a slug value: a space becomes %20, unreserved text is kept.
Escape(s) == IF s = "a b" THEN "a%20b" ELSE s

\* The template with every placeholder replaced by its escaped slug value.
Render(url, slugs) ==
    [i \in DOMAIN url |->
        IF url[i].k = "ph" THEN Val(Escape(slugs[url[i].s].v)) ELSE url[i]]

\* ---------------------------------------------------------------- requests

\* The json argument of the transport: a mapping, or None (no body).
Json(m) == [given |-> TRUE, map |-> m]
NoJson == [given |-> FALSE, map |-> EmptyMap]

\* The body dictionary without its sentinel-valued entries.
DropUndefined(data) == [f \in {g \in DOMAIN data : data[g] # UNDEFINED} |-> data[f]]

Prepared(url, json) == [ok |-> TRUE, error |-> NoError, url |-> url, json |-> json]
NotPrepared(error) == [ok |-> FALSE, error |-> error, url |-> <<>>, json |-> NoJson]

\* BaseRest.prepare_request: filter and validate the body, validate the slugs,
\* substitute them into the URL.  Nothing is sent here.
prepare_request(url, body_with_schema, slugs_with_schema) ==
    LET body == DropUndefined(body_with_schema.data)
        badBody == IF body_with_schema.given
                   THEN Offending(body_with_schema.schema, body) ELSE {}
        badSlugs == IF slugs_with_schema.given
                    THEN Offending(slugs_with_schema.schema, slugs_with_schema.data)
                    ELSE {}
        slugs == Load(slugs_with_schema.schema, slugs_with_schema.data)
        missing == Placeholders(url) \ DOMAIN slugs
    IN  IF badBody # {} THEN NotPrepared(ValidationError(badBody))
        ELSE IF badSlugs # {} THEN NotPrepared(ValidationError(badSlugs))
        ELSE IF missing # {} THEN NotPrepared(MissingSlugError(missing))
        ELSE Prepared(Render(url, slugs),
                      IF body_with_schema.given
                      THEN Json(Load(body_with_schema.schema, body)) ELSE NoJson)

\* ---------------------------------------------------------------- responses

\* What the transport does with a request: it raises, or it answers with a
\* status and an envelope {success, data} or {success, error}.
Envelope(success, error, data) == [success |-> success, error |-> error, data |-> data]
Failed == [raised |-> TRUE, status |-> 0, body |-> Envelope("absent", "", Nothing)]
Response(status, body) == [raised |-> FALSE, status |-> status, body |-> body]
NoResponse == [raised |-> FALSE, status |-> 0, body |-> Envelope("absent", "", Nothing)]

Is2xx(status) == status >= 200 /\ status < 300

\* The fields the entity schema rejects in any of the records.
BadItems(schema, items) ==
    UNION {Offending(schema, items[i]) : i \in DOMAIN items}

\* BaseRest.prepare_response: map the status, validate the envelope, then the
\* payload against the entity schema (each element of a list in many mode).
prepare_response(resp, response_schema) ==
    IF ~Is2xx(resp.status)
    THEN IF resp.body.error # "" THEN Raise(APIError(resp.body.error))
         ELSE Raise(TransportError)
    ELSE IF resp.body.success # "true" THEN Raise(ValidationError({"success"}))
    ELSE IF ~response_schema.given THEN Return(Nothing)
    ELSE LET data == resp.body.data
             wanted == IF response_schema.many THEN "list" ELSE "record"
             bad == BadItems(response_schema.schema, data.items)
         IN  IF data.k # wanted THEN Raise(ValidationError({"data"}))
             ELSE IF bad # {} THEN Raise(ValidationError(bad))
             ELSE Return([k |-> data.k,
                          items |-> [i \in DOMAIN data.items |->
                                        Load(response_schema.schema, data.items[i])]])

\* BaseClient._validate_project_response: load the envelope, then load its
\* `data` with ProjectSchema and return the loaded record.
validate_project_response(response_data) ==
    LET data == response_data.data
        bad == BadItems(ProjectSchema, data.items)
    IN  IF response_data.success # "true" THEN Raise(ValidationError({"success"}))
        ELSE IF data.k # "record" THEN Raise(ValidationError({"data"}))
        ELSE IF bad # {} THEN Raise(ValidationError(bad))
        ELSE Return(Record(Load(ProjectSchema, data.items[1])))

\* BaseClient._validate_create_request: load {name, namespace} with
\* ProjectBodySchema and return the loaded mapping.
validate_create_request(project_namespace, project_name) ==
    LET data == [name |-> project_name, namespace |-> project_namespace]
        bad == Offending(ProjectBodySchema, data)
    IN  IF bad # {} THEN Raise(ValidationError(bad))
        ELSE Return(Record(Load(ProjectBodySchema, data)))

\* The arguments of one invocation of Rest.request.
Invocation(url, method, body_with_schema, slugs_with_schema, response_schema) ==
    [url |-> url, method |-> method, body |-> body_with_schema,
     slugs |-> slugs_with_schema, response_schema |-> response_schema]

\* Faulty variant of Rest.request: the transport is invoked with the raw url and
\* body before prepare_request has validated anything.
Request_SendFirst(url, method, body_with_schema, slugs_with_schema, response_schema, t) ==
    LET prep == prepare_request(url, body_with_schema, slugs_with_schema)
        req == [method |-> method, url |-> url,
                json |-> IF body_with_schema.given
                         THEN Json(body_with_schema.data) ELSE NoJson]
        invoked == Invocation(url, method, body_with_schema, slugs_with_schema,
                              response_schema)
    IN  [call |-> invoked, sent |-> <<req>>,
         outcome |-> IF ~prep.ok THEN Raise(prep.error)
                     ELSE IF t.raised THEN Raise(TransportError)
                     ELSE prepare_response(t, response_schema)]

\* Faulty variant of Rest.request: a failed or non-2xx exchange is tried again.
Request_Retry(url, method, body_with_schema, slugs_with_schema, response_schema, t) ==
    LET prep == prepare_request(url, body_with_schema, slugs_with_schema)
        req == [method |-> method, url |-> prep.url, json |-> prep.json]
        invoked == Invocation(url, method, body_with_schema, slugs_with_schema,
                              response_schema)
    IN  IF ~prep.ok
        THEN [call |-> invoked, sent |-> <<>>, outcome |-> Raise(prep.error)]
        ELSE IF t.raised
        THEN [call |-> invoked, sent |-> <<req, req>>, outcome |-> Raise(TransportError)]
        ELSE [call |-> invoked,
              sent |-> IF Is2xx(t.status) THEN <<req>> ELSE <<req, req>>,
              outcome |-> prepare_response(t, response_schema)]

\* Faulty variant of Rest.request: the response is unwrapped as if its status
\* were 200, whatever the server answered.
Request_IgnoreStatus(url, method, body_with_schema, slugs_with_schema, response_schema, t) ==
    LET prep == prepare_request(url, body_with_schema, slugs_with_schema)
        req == [method |-> method, url |-> prep.url, json |-> prep.json]
        invoked == Invocation(url, method, body_with_schema, slugs_with_schema,
                              response_schema)
    IN  IF ~prep.ok
        THEN [call |-> invoked, sent |-> <<>>, outcome |-> Raise(prep.error)]
        ELSE IF t.raised
        THEN [call |-> invoked, sent |-> <<req>>, outcome |-> Raise(TransportError)]
        ELSE [call |-> invoked, sent |-> <<req>>,
              outcome |-> prepare_response([t EXCEPT !.status = 200], response_schema)]

\* Faulty variant of Rest.request: the transport gets the url template instead
\* of the url prepare_request returned.
Request_TemplateUrl(url, method, body_with_schema, slugs_with_schema, response_schema, t) ==
    LET prep == prepare_request(url, body_with_schema, slugs_with_schema)
        req == [method |-> method, url |-> url, json |-> prep.json]
        invoked == Invocation(url, method, body_with_schema, slugs_with_schema,
                              response_schema)
    IN  IF ~prep.ok
        THEN [call |-> invoked, sent |-> <<>>, outcome |-> Raise(prep.error)]
        ELSE IF t.raised
        THEN [call |-> invoked, sent |-> <<req>>, outcome |-> Raise(TransportError)]
        ELSE [call |-> invoked, sent |-> <<req>>,
              outcome |-> prepare_response(t, response_schema)]

\* Faulty variant of Rest.request: every error is caught and raised again as a
\* generic LawgError naming the original.
Request_Wrapped(url, method, body_with_schema, slugs_with_schema, response_schema, t) ==
    LET prep == prepare_request(url, body_with_schema, slugs_with_schema)
        req == [method |-> method, url |-> prep.url, json |-> prep.json]
        invoked == Invocation(url, method, body_with_schema, slugs_with_schema,
                              response_schema)
        Wrap(o) == IF o.kind = "raise"
                   THEN Raise([type |-> "LawgError", msg |-> o.error.type, fields |-> {}])
                   ELSE o
    IN  IF ~prep.ok
        THEN [call |-> invoked, sent |-> <<>>, outcome |-> Wrap(Raise(prep.error))]
        ELSE IF t.raised
        THEN [call |-> invoked, sent |-> <<req>>, outcome |-> Wrap(Raise(TransportError))]
        ELSE [call |-> invoked, sent |-> <<req>>,
              outcome |-> Wrap(prepare_response(t, response_schema))]

\* A faulty variant: a call whose filtered body is empty is answered locally,
\* without a request.
Request_SkipEmpty(url, method, body_with_schema, slugs_with_schema, response_schema, t) ==
    LET prep == prepare_request(url, body_with_schema, slugs_with_schema)
        req == [method |-> method, url |-> prep.url, json |-> prep.json]
        invoked == Invocation(url, method, body_with_schema, slugs_with_schema,
                              response_schema)
    IN  IF ~prep.ok
        THEN [call |-> invoked, sent |-> <<>>, outcome |-> Raise(prep.error)]
        ELSE IF prep.json = Json(EmptyMap)
        THEN [call |-> invoked, sent |-> <<>>, outcome |-> Return(Nothing)]
        ELSE IF t.raised
        THEN [call |-> invoked, sent |-> <<req>>, outcome |-> Raise(TransportError)]
        ELSE [call |-> invoked, sent |-> <<req>>,
              outcome |-> prepare_response(t, response_schema)]

\* A faulty variant: after a 2xx answer the parsed envelope itself is returned.
Request_RawEnvelope(url, method, body_with_schema, slugs_with_schema, response_schema, t) ==
    LET prep == prepare_request(url, body_with_schema, slugs_with_schema)
        req == [method |-> method, url |-> prep.url, json |-> prep.json]
        invoked == Invocation(url, method, body_with_schema, slugs_with_schema,
                              response_schema)
        unwrapped == prepare_response(t, response_schema)
        envelope == [success |-> Str(t.body.success), data |-> Map("data")]
    IN  IF ~prep.ok
        THEN [call |-> invoked, sent |-> <<>>, outcome |-> Raise(prep.error)]
        ELSE IF t.raised
        THEN [call |-> invoked, sent |-> <<req>>, outcome |-> Raise(TransportError)]
        ELSE [call |-> invoked, sent |-> <<req>>,
              outcome |-> IF unwrapped.kind = "return" /\ response_schema.given
                          THEN Return(Record(envelope))
                          ELSE unwrapped]

\* Rest.request: prepare, hand to the transport once, prepare the response.
\* `t` is what the transport does with the request.
Request(url, method, body_with_schema, slugs_with_schema, response_schema, t) ==
    LET prep == prepare_request(url, body_with_schema, slugs_with_schema)
        req == [method |-> method, url |-> prep.url, json |-> prep.json]
        invoked == Invocation(url, method, body_with_schema, slugs_with_schema,
                              response_schema)
    IN  IF ~prep.ok
        THEN [call |-> invoked, sent |-> <<>>, outcome |-> Raise(prep.error)]
        ELSE IF t.raised
        THEN [call |-> invoked, sent |-> <<req>>, outcome |-> Raise(TransportError)]
        ELSE [call |-> invoked, sent |-> <<req>>,
              outcome |-> prepare_response(t, response_schema)]

\* A call whose returned value the operation drops: it returns None, or raises.
Discard(r) ==
    [call |-> r.call, sent |-> r.sent,
     outcome |-> IF r.outcome.kind = "raise" THEN r.outcome ELSE Return(Nothing)]

\* ---------------------------------------------------------------- Rest: projects

create_project(project, project_name, t) ==
    LET body == [namespace |-> project, name |-> project_name]
    IN  Request(API_CREATE_PROJECT, "POST",
                DataWithSchema(body, ProjectCreateBodySchema), NoData,
                One(ProjectSchema), t)

fetch_project(project, t) ==
    LET slugs == [namespace |-> project]
    IN  Request(API_GET_PROJECT, "GET",
                NoData, DataWithSchema(slugs, ProjectGetSlugSchema),
                One(ProjectSchema), t)

edit_project(project, project_name, t) ==
    LET slugs == [namespace |-> project]
        body == [name |-> project_name]
    IN  Request(API_EDIT_PROJECT, "PATCH",
                DataWithSchema(body, ProjectPatchBodySchema),
                DataWithSchema(slugs, ProjectPatchSlugSchema),
                One(ProjectSchema), t)

delete_project(project, t) ==
    LET slugs == [namespace |-> project]
    IN  Discard(Request(API_DELETE_PROJECT, "DELETE",
                        NoData, DataWithSchema(slugs, ProjectDeleteSlugSchema),
                        NoResponseSchema, t))

\* ---------------------------------------------------------------- Rest: feeds

create_feed(project, feed, description, emoji, t) ==
    LET slugs == [namespace |-> project]
        data == [name |-> feed, description |-> description, emoji |-> emoji]
    IN  Request(API_CREATE_FEED, "POST",
                DataWithSchema(data, FeedCreateBodySchema),
                DataWithSchema(slugs, FeedCreateSlugSchema),
                One(FeedSchema), t)

edit_feed(project, feed, name, description, emoji, t) ==
    LET slugs == [namespace |-> project, feed |-> feed]
        data == [name |-> name, description |-> description, emoji |-> emoji]
    IN  Request(API_EDIT_FEED, "PATCH",
                DataWithSchema(data, FeedPatchBodySchema),
                DataWithSchema(slugs, FeedPatchSlugSchema),
                One(FeedSchema), t)

delete_feed(project, feed, t) ==
    LET slugs == [namespace |-> project, feed |-> feed]
    IN  Discard(Request(API_DELETE_FEED, "DELETE",
                        NoData, DataWithSchema(slugs, FeedDeleteSlugSchema),
                        NoResponseSchema, t))

\* ---------------------------------------------------------------- Rest: logs

create_log(project, feed, title, description, emoji, t) ==
    LET slugs == [namespace |-> project, feed |-> feed]
        data == [title |-> title, description |-> description, emoji |-> emoji]
    IN  Request(API_CREATE_LOG, "POST",
                DataWithSchema(data, LogCreateBodySchema),
                DataWithSchema(slugs, LogCreateSlugSchema),
                One(LogSchema), t)

fetch_log(project, feed, log_id, t) ==
    LET slugs == [namespace |-> project, feed |-> feed, log_id |-> log_id]
    IN  Request(API_GET_LOG, "GET",
                NoData, DataWithSchema(slugs, LogGetSlugSchema),
                One(LogSchema), t)

\* Faulty variant of fetch_logs: the response schema is LogSchema() without many=True.
fetch_logs_single(project, feed, limit, offset, t) ==
    LET slugs == [namespace |-> project, feed |-> feed]
        data == [limit |-> limit, offset |-> offset]
    IN  Request(API_GET_LOGS, "GET",
                DataWithSchema(data, LogGetMultipleBodySchema),
                DataWithSchema(slugs, LogGetMultipleSlugSchema),
                One(LogSchema), t)

\* Faulty variant of fetch_logs: the elements are validated as feeds.
fetch_logs_as_feeds(project, feed, limit, offset, t) ==
    LET slugs == [namespace |-> project, feed |-> feed]
        data == [limit |-> limit, offset |-> offset]
    IN  Request(API_GET_LOGS, "GET",
                DataWithSchema(data, LogGetMultipleBodySchema),
                DataWithSchema(slugs, LogGetMultipleSlugSchema),
                Many(FeedSchema), t)

fetch_logs(project, feed, limit, offset, t) ==
    LET slugs == [namespace |-> project, feed |-> feed]
        data == [limit |-> limit, offset |-> offset]
    IN  Request(API_GET_LOGS, "GET",
                DataWithSchema(data, LogGetMultipleBodySchema),
                DataWithSchema(slugs, LogGetMultipleSlugSchema),
                Many(LogSchema), t)

\* Faulty variant of edit_log: the description entry carries the title argument.
edit_log_swapped(project, feed, log_id, title, description, emoji, t) ==
    LET slugs == [namespace |-> project, feed |-> feed, log_id |-> log_id]
        data == [title |-> title, description |-> title, emoji |-> emoji]
    IN  Request(API_EDIT_LOG, "PATCH",
                DataWithSchema(data, LogPatchBodySchema),
                DataWithSchema(slugs, LogPatchSlugSchema),
                One(LogSchema), t)

edit_log(project, feed, log_id, title, description, emoji, t) ==
    LET slugs == [namespace |-> project, feed |-> feed, log_id |-> log_id]
        data == [title |-> title, description |-> description, emoji |-> emoji]
    IN  Request(API_EDIT_LOG, "PATCH",
                DataWithSchema(data, LogPatchBodySchema),
                DataWithSchema(slugs, LogPatchSlugSchema),
                One(LogSchema), t)

delete_log(project, feed, log_id, t) ==
    LET slugs == [namespace |-> project, feed |-> feed, log_id |-> log_id]
    IN  Discard(Request(API_DELETE_LOG, "DELETE",
                        NoData, DataWithSchema(slugs, LogDeleteSlugSchema),
                        NoResponseSchema, t))

\* ---------------------------------------------------------------- Rest: insights

create_insight(project, title, description, value, emoji, t) ==
    LET slugs == [namespace |-> project]
        data == [title |-> title, description |-> description,
                 emoji |-> emoji, value |-> value]
    IN  Request(API_CREATE_INSIGHT, "POST",
                DataWithSchema(data, InsightCreateBodySchema),
                DataWithSchema(slugs, InsightCreateSlugSchema),
                One(InsightSchema), t)

fetch_insight(project, insight_id, t) ==
    LET slugs == [namespace |-> project, insight_id |-> insight_id]
    IN  Request(API_GET_INSIGHTS, "GET",
                NoData, DataWithSchema(slugs, InsightGetSlugSchema),
                One(InsightSchema), t)

fetch_insights(project, t) ==
    LET slugs == [namespace |-> project]
    IN  Request(API_GET_INSIGHTS, "GET",
                NoData, DataWithSchema(slugs, InsightGetMultipleBodySchema),
                Many(InsightSchema), t)

edit_insight(project, insight_id, title, description, emoji, value, t) ==
    LET slugs == [namespace |-> project, insight_id |-> insight_id]
        data == [title |-> title, description |-> description,
                 emoji |-> emoji, value |-> value]
    IN  Request(API_EDIT_INSIGHT, "PATCH",
                DataWithSchema(data, InsightPatchBodySchema),
                DataWithSchema(slugs, InsightPatchSlugSchema),
                One(InsightSchema), t)

delete_insight(project, insight_id, t) ==
    LET slugs == [namespace |-> project, insight_id |-> insight_id]
    IN  Discard(Request(API_DELETE_INSIGHT, "DELETE",
                        NoData, DataWithSchema(slugs, InsightValueSchema),
                        NoResponseSchema, t))

\* ---------------------------------------------------------------- Client

\* Client._edit_project: the namespace travels in the body, no slug is passed.
client_edit_project(project_namespace, project_name, t) ==
    LET body == [namespace |-> project_namespace, name |-> project_name]
    IN  Request(API_EDIT_PROJECT, "PATCH",
                DataWithSchema(body, ProjectBodySchema), NoData,
                One(ProjectSchema), t)

\* ---------------------------------------------------------------- inputs

\* Arguments the caller passes.  Each set holds accepted values and rejected
\* ones (an empty string, a null for a required field, a value of the wrong kind).
Namespaces == {Str("test"), Str("a b"), Str("")}
Feeds == {Str("news"), Str("")}
Ids == {Str("1"), Str("")}
Names == {Str("test"), Str(""), None}
OptionalStrings == {None, Str("x"), Num("7")}
PatchStrings == {UNDEFINED, None, Str("x"), Num("7")}
Numbers == {None, Num("5"), Str("5"), Str("x")}
CreateValues == {None, Num("7"), Str("x")}
PatchValues == {UNDEFINED, None, Map("set"), Num("7")}

\* Records a server may answer with for an entity schema: two valid ones and
\* one that lacks its id.
Good(schema, id) == [f \in schema.required |-> IF f = "id" THEN Str(id) ELSE Str("x")]
Bad(schema) == [f \in schema.required \ {"id"} |-> Str("x")]
Records(schema) == {Good(schema, "1"), Good(schema, "2"), Bad(schema)}
Lists(schema) == UNION {[1..n -> Records(schema)] : n \in 0..MaxList}
Payloads(schema) ==
    {Nothing} \cup {Record(r) : r \in Records(schema)} \cup {List(l) : l \in Lists(schema)}

\* What the transport may do with a request about entities of `schema`.
Answers(schema) ==
    {Failed}
    \cup {Response(st, Envelope("false", e, Nothing)) :
            st \in {404, 500}, e \in {"not_found", ""}}
    \cup {Response(200, Envelope("true", "", p)) : p \in Payloads(schema)}
    \cup {Response(204, Envelope("true", "", Nothing)),
          Response(200, Envelope("false", "", Nothing)),
          Response(200, Envelope("absent", "", Nothing))}

\* ---------------------------------------------------------------- state machine

NoCall == [url |-> <<>>, method |-> "", body |-> NoData, slugs |-> NoData,
           response_schema |-> NoResponseSchema]
NoOutcome == [kind |-> "none", error |-> NoError, value |-> Nothing]

\* The threads that share the client and the handles.
Threads == {"t1", "t2"}

\* The session Rest.__init__ builds: an httpx.Client carrying the client's headers.
NewSession == [headers |-> {"Authorization"}]

\* A thread that runs no operation.
NoTask == [pc |-> "idle", op |-> "", args |-> EmptyMap, sent |-> <<>>,
           response |-> NoResponse, outcome |-> NoOutcome]

\* The handles as the client constructs them from fetched records.
NewProject == [namespace |-> Str("test"), name |-> Str("old"), is_deleted |-> FALSE]
NewEvent == [feed |-> Str("news"), id |-> Str("1"), title |-> Str("old"),
             description |-> None, emoji |-> None, is_deleted |-> FALSE]
Handles == {"project", "event"}

\* A thread that runs no handle method.
NoCaller == [pc |-> "idle", method |-> "", args |-> EmptyMap, outcome |-> NoOutcome]

Init ==
    /\ deletes = <<>>
    /\ session = NewSession
    /\ tasks = [th \in Threads |-> NoTask]
    /\ handles = [project |-> NewProject, event |-> NewEvent]
    /\ callers = [th \in Threads |-> NoCaller]
    /\ tally = [h \in Handles |-> [requests |-> 0, succeeded |-> 0]]
    /\ pc = "idle"
    /\ op = ""
    /\ args = EmptyMap
    /\ call = NoCall
    /\ sent = <<>>
    /\ response = NoResponse
    /\ outcome = NoOutcome
    /\ calls = 0

\* The caller may start an operation.
CanStart == pc = "idle" /\ calls < MaxCalls

\* Operation `name`, called with `a`, ran to its end `r` against a transport doing `t`.
Finish(name, a, r, t) ==
    /\ pc' = "done"
    /\ op' = name
    /\ args' = a
    /\ call' = r.call
    /\ sent' = r.sent
    /\ response' = IF r.sent = <<>> THEN NoResponse ELSE t
    /\ outcome' = r.outcome
    /\ calls' = calls + Len(r.sent)
    /\ UNCHANGED beyond

CreateProject ==
    /\ CanStart
    /\ \E project \in Namespaces, project_name \in Names, t \in Answers(ProjectSchema) :
         Finish("create_project", [project |-> project, project_name |-> project_name],
                create_project(project, project_name, t), t)

FetchProject ==
    /\ CanStart
    /\ \E project \in Namespaces, t \in Answers(ProjectSchema) :
         Finish("fetch_project", [project |-> project], fetch_project(project, t), t)

EditProject ==
    /\ CanStart
    /\ \E project \in Namespaces, project_name \in Names, t \in Answers(ProjectSchema) :
         Finish("edit_project", [project |-> project, project_name |-> project_name],
                edit_project(project, project_name, t), t)

DeleteProject ==
    /\ CanStart
    /\ \E project \in Namespaces, t \in Answers(ProjectSchema) :
         Finish("delete_project", [project |-> project], delete_project(project, t), t)

CreateFeed ==
    /\ CanStart
    /\ \E project \in Namespaces, feed \in Names,
          description \in OptionalStrings, emoji \in OptionalStrings,
          t \in Answers(FeedSchema) :
         Finish("create_feed",
                [project |-> project, feed |-> feed,
                 description |-> description, emoji |-> emoji],
                create_feed(project, feed, description, emoji, t), t)

EditFeed ==
    /\ CanStart
    /\ \E project \in Namespaces, feed \in Feeds, name \in PatchStrings,
          description \in PatchStrings, emoji \in PatchStrings,
          t \in Answers(FeedSchema) :
         Finish("edit_feed",
                [project |-> project, feed |-> feed, name |-> name,
                 description |-> description, emoji |-> emoji],
                edit_feed(project, feed, name, description, emoji, t), t)

DeleteFeed ==
    /\ CanStart
    /\ \E project \in Namespaces, feed \in Feeds, t \in Answers(FeedSchema) :
         Finish("delete_feed", [project |-> project, feed |-> feed],
                delete_feed(project, feed, t), t)

CreateLog ==
    /\ CanStart
    /\ \E project \in Namespaces, feed \in Feeds, title \in Names,
          description \in OptionalStrings, emoji \in OptionalStrings,
          t \in Answers(LogSchema) :
         Finish("create_log",
                [project |-> project, feed |-> feed, title |-> title,
                 description |-> description, emoji |-> emoji],
                create_log(project, feed, title, description, emoji, t), t)

FetchLog ==
    /\ CanStart
    /\ \E project \in Namespaces, feed \in Feeds, log_id \in Ids, t \in Answers(LogSchema) :
         Finish("fetch_log", [project |-> project, feed |-> feed, log_id |-> log_id],
                fetch_log(project, feed, log_id, t), t)

FetchLogs ==
    /\ CanStart
    /\ \E project \in Namespaces, feed \in Feeds, limit \in Numbers, offset \in Numbers,
          t \in Answers(LogSchema) :
         Finish("fetch_logs",
                [project |-> project, feed |-> feed, limit |-> limit, offset |-> offset],
                fetch_logs(project, feed, limit, offset, t), t)

EditLog ==
    /\ CanStart
    /\ \E project \in Namespaces, feed \in Feeds, log_id \in Ids, title \in PatchStrings,
          description \in PatchStrings, emoji \in PatchStrings,
          t \in Answers(LogSchema) :
         Finish("edit_log",
                [project |-> project, feed |-> feed, log_id |-> log_id, title |-> title,
                 description |-> description, emoji |-> emoji],
                edit_log(project, feed, log_id, title, description, emoji, t), t)

DeleteLog ==
    /\ CanStart
    /\ \E project \in Namespaces, feed \in Feeds, log_id \in Ids, t \in Answers(LogSchema) :
         Finish("delete_log", [project |-> project, feed |-> feed, log_id |-> log_id],
                delete_log(project, feed, log_id, t), t)

CreateInsight ==
    /\ CanStart
    /\ \E project \in Namespaces, title \in Names, description \in OptionalStrings,
          value \in CreateValues, emoji \in OptionalStrings,
          t \in Answers(InsightSchema) :
         Finish("create_insight",
                [project |-> project, title |-> title, description |-> description,
                 value |-> value, emoji |-> emoji],
                create_insight(project, title, description, value, emoji, t), t)

FetchInsight ==
    /\ CanStart
    /\ \E project \in Namespaces, insight_id \in Ids, t \in Answers(InsightSchema) :
         Finish("fetch_insight", [project |-> project, insight_id |-> insight_id],
                fetch_insight(project, insight_id, t), t)

FetchInsights ==
    /\ CanStart
    /\ \E project \in Namespaces, t \in Answers(InsightSchema) :
         Finish("fetch_insights", [project |-> project], fetch_insights(project, t), t)

EditInsight ==
    /\ CanStart
    /\ \E project \in Namespaces, insight_id \in Ids, title \in PatchStrings,
          description \in PatchStrings, emoji \in PatchStrings, value \in PatchValues,
          t \in Answers(InsightSchema) :
         Finish("edit_insight",
                [project |-> project, insight_id |-> insight_id, title |-> title,
                 description |-> description, emoji |-> emoji, value |-> value],
                edit_insight(project, insight_id, title, description, emoji, value, t), t)

DeleteInsight ==
    /\ CanStart
    /\ \E project \in Namespaces, insight_id \in Ids, t \in Answers(InsightSchema) :
         Finish("delete_insight", [project |-> project, insight_id |-> insight_id],
                delete_insight(project, insight_id, t), t)

ClientEditProject ==
    /\ CanStart
    /\ \E project_namespace \in Namespaces, project_name \in Names,
          t \in Answers(ProjectSchema) :
         Finish("client_edit_project",
                [project_namespace |-> project_namespace, project_name |-> project_name],
                client_edit_project(project_namespace, project_name, t), t)

\* The caller has the result and is free to call again.
Proceed ==
    /\ pc = "done"
    /\ pc' = "idle"
    /\ op' = ""
    /\ args' = EmptyMap
    /\ call' = NoCall
    /\ sent' = <<>>
    /\ response' = NoResponse
    /\ outcome' = NoOutcome
    /\ UNCHANGED <<calls, beyond>>

Next ==
    \/ CreateProject \/ FetchProject \/ EditProject \/ DeleteProject
    \/ CreateFeed \/ EditFeed \/ DeleteFeed
    \/ CreateLog \/ FetchLog \/ FetchLogs \/ EditLog \/ DeleteLog
    \/ CreateInsight \/ FetchInsight \/ FetchInsights \/ EditInsight \/ DeleteInsight
    \/ ClientEditProject
    \/ Proceed

Spec == Init /\ [][Next]_vars

\* The operations of Rest, by kind.
RestOps ==
    {"create_project", "fetch_project", "edit_project", "delete_project",
     "create_feed", "edit_feed", "delete_feed",
     "create_log", "fetch_log", "fetch_logs", "edit_log", "delete_log",
     "create_insight", "fetch_insight", "fetch_insights", "edit_insight", "delete_insight"}
EditOps == {"edit_feed", "edit_log", "edit_insight"}
DeleteOps == {"delete_project", "delete_feed", "delete_log", "delete_insight"}
FetchManyOps == {"fetch_logs", "fetch_insights"}

TypeOK ==
    /\ pc \in {"idle", "done"}
    /\ op \in RestOps \cup {"client_edit_project", ""}
    /\ calls \in Nat
    /\ Len(sent) <= 1
    /\ outcome.kind \in {"none", "return", "raise"}
    /\ (pc = "idle") <=> (op = "")

\* ---------------------------------------------------------------- repeated deletes

\* Longest run of delete calls.
MaxDeletes == 3

\* What the transport may answer to a DELETE: it raises, the record is gone
\* already, or the delete succeeded (with or without content).
DeleteAnswers ==
    {Failed,
     Response(404, Envelope("false", "not_found", Nothing)),
     Response(204, Envelope("true", "", Nothing)),
     Response(200, Envelope("true", "", Nothing))}

\* Delete operation `name`, called with `a`, ran to its end `r` against a
\* transport doing `t`; the call is appended to the run.
Deleted(name, a, r, t) ==
    /\ Len(deletes) < MaxDeletes
    /\ deletes' = Append(deletes,
                         [op |-> name, args |-> a, sent |-> r.sent,
                          response |-> IF r.sent = <<>> THEN NoResponse ELSE t,
                          outcome |-> r.outcome])
    /\ calls' = calls + Len(r.sent)
    /\ UNCHANGED <<pc, op, args, call, sent, response, outcome,
                   session, tasks, handles, callers, tally>>

RepeatDeleteProject ==
    \E t \in DeleteAnswers :
        Deleted("delete_project", [project |-> Str("test")],
                delete_project(Str("test"), t), t)

RepeatDeleteFeed ==
    \E t \in DeleteAnswers :
        Deleted("delete_feed", [project |-> Str("test"), feed |-> Str("news")],
                delete_feed(Str("test"), Str("news"), t), t)

RepeatDeleteLog ==
    \E log_id \in Ids, t \in DeleteAnswers :
        Deleted("delete_log",
                [project |-> Str("test"), feed |-> Str("news"), log_id |-> log_id],
                delete_log(Str("test"), Str("news"), log_id, t), t)

RepeatDeleteInsight ==
    \E t \in DeleteAnswers :
        Deleted("delete_insight", [project |-> Str("test"), insight_id |-> Str("1")],
                delete_insight(Str("test"), Str("1"), t), t)

DeleteNext ==
    \/ RepeatDeleteProject \/ RepeatDeleteFeed \/ RepeatDeleteLog \/ RepeatDeleteInsight

\* Runs of delete calls on one client.
DeleteSpec == Init /\ [][DeleteNext]_vars

\* ---------------------------------------------------------------- threads on one client

\* The operation `o` of Rest called with the arguments `a`.
Perform(o, a, t) ==
    CASE o = "create_project" -> create_project(a.project, a.project_name, t)
      [] o = "fetch_project" -> fetch_project(a.project, t)
      [] o = "edit_log" ->
            edit_log(a.project, a.feed, a.log_id, a.title, a.description, a.emoji, t)
      [] o = "fetch_logs" -> fetch_logs(a.project, a.feed, a.limit, a.offset, t)
      [] o = "delete_feed" -> delete_feed(a.project, a.feed, t)

\* The calls a thread may make: operation and arguments.
TaskCalls ==
    {[op |-> "create_project",
      args |-> [project |-> Str("test"), project_name |-> Str("test")]]}
    \cup {[op |-> "fetch_project", args |-> [project |-> ns]] :
            ns \in {Str("a b"), Str("")}}
    \cup {[op |-> "edit_log",
           args |-> [project |-> Str("test"), feed |-> Str("news"), log_id |-> Str("1"),
                     title |-> title, description |-> UNDEFINED, emoji |-> None]] :
            title \in {UNDEFINED, Str("x")}}
    \cup {[op |-> "fetch_logs",
           args |-> [project |-> Str("test"), feed |-> Str("news"),
                     limit |-> limit, offset |-> None]] :
            limit \in {None, Str("5")}}
    \cup {[op |-> "delete_feed", args |-> [project |-> Str("test"), feed |-> feed]] :
            feed \in Feeds}

\* What the transport may answer to a thread's request.
TaskAnswers ==
    {Failed,
     Response(404, Envelope("false", "not_found", Nothing)),
     Response(204, Envelope("true", "", Nothing)),
     Response(200, Envelope("true", "", Record(Good(ProjectSchema, "1")))),
     Response(200, Envelope("true", "", Record(Good(LogSchema, "1")))),
     Response(200, Envelope("true", "", List(<<Good(LogSchema, "2")>>)))}

\* A faulty variant: handing over a request with a body adds a header to the
\* shared session, where it stays for every later request.
Dispatch_Sticky(shared, req) ==
    LET headers == IF req.json.given THEN shared.headers \cup {"Content-Type"}
                   ELSE shared.headers
    IN  [session |-> [shared EXCEPT !.headers = headers],
         wire |-> [method |-> req.method, url |-> req.url, json |-> req.json,
                   headers |-> headers]]

\* self.http_client.request(method, url, json): the session sends the request
\* with its own headers and is left as it was.
Dispatch(shared, req) ==
    [session |-> shared,
     wire |-> [method |-> req.method, url |-> req.url, json |-> req.json,
               headers |-> shared.headers]]

\* Thread `th` calls an operation: Rest.request prepares the request and either
\* raises at once or hands the request to the session and blocks.
Call(th) ==
    /\ tasks[th].pc = "idle"
    /\ calls < MaxCalls
    /\ \E c \in TaskCalls :
         LET r == Perform(c.op, c.args, Failed)
             out == Dispatch(session, r.sent[1])
         IN  IF r.sent = <<>>
             THEN /\ tasks' = [tasks EXCEPT ![th] =
                                  [pc |-> "done", op |-> c.op, args |-> c.args,
                                   sent |-> <<>>, response |-> NoResponse,
                                   outcome |-> r.outcome]]
                  /\ UNCHANGED <<session, calls>>
             ELSE /\ tasks' = [tasks EXCEPT ![th] =
                                  [pc |-> "waiting", op |-> c.op, args |-> c.args,
                                   sent |-> <<out.wire>>, response |-> NoResponse,
                                   outcome |-> NoOutcome]]
                  /\ session' = out.session
                  /\ calls' = calls + 1
    /\ UNCHANGED <<pc, op, args, call, sent, response, outcome,
                   deletes, handles, callers, tally>>

\* The transport answers the request of thread `th`; Rest.request prepares the
\* response and the operation ends.
Answer(th) ==
    /\ tasks[th].pc = "waiting"
    /\ \E t \in TaskAnswers :
         tasks' = [tasks EXCEPT ![th] =
                      [pc |-> "done", op |-> tasks[th].op, args |-> tasks[th].args,
                       sent |-> tasks[th].sent, response |-> t,
                       outcome |-> Perform(tasks[th].op, tasks[th].args, t).outcome]]
    /\ UNCHANGED <<pc, op, args, call, sent, response, outcome, calls,
                   deletes, session, handles, callers, tally>>

\* Thread `th` has its result and is free to call again.
Resume(th) ==
    /\ tasks[th].pc = "done"
    /\ tasks' = [tasks EXCEPT ![th] = NoTask]
    /\ UNCHANGED <<pc, op, args, call, sent, response, outcome, calls,
                   deletes, session, handles, callers, tally>>

ClientNext == \E th \in Threads : Call(th) \/ Answer(th) \/ Resume(th)

\* Threads sharing one client, interleaved at the blocking transport call.
ClientSpec == Init /\ [][ClientNext]_vars

\* ---------------------------------------------------------------- handles

\* Handle methods start only while fewer than MaxRequests requests were issued.
MaxRequests == 3

\* The errors the handles raise on a second delete.
LawgAlreadyDeleted(what) == [type |-> "LawgAlreadyDeleted", msg |-> what, fields |-> {}]
LawgAlreadyDeletedError == [type |-> "LawgAlreadyDeletedError", msg |-> "", fields |-> {}]
AlreadyDeletedErrors == {LawgAlreadyDeleted("project"), LawgAlreadyDeletedError}

\* The record of an event as the server answers it.
EventSchema ==
    Schema("EventSchema", {"id", "title"}, {"description", "emoji"},
           Strings({"id", "title", "description", "emoji"}))
ServerEvent == [id |-> Str("1"), title |-> Str("x"), description |-> Str("y"),
                emoji |-> None]

\* The operations of client.rest the handles call.  Project calls
\* rest._edit_project and rest._delete_project, Event calls rest.edit_event and
\* rest.delete_event; they are taken to be the project edit and delete of Rest
\* and the edit and delete of a feed entry, the event record being answered in
\* place of the log record.  The slug schema accepts strings only, so the
\* `project` Event passes is rejected before any request is made.
rest_edit_project(project_namespace, project_name, t) ==
    edit_project(project_namespace, project_name, t)

rest_delete_project(project_namespace, t) == delete_project(project_namespace, t)

rest_edit_event(project, feed, event_id, title, description, emoji, t) ==
    LET slugs == [namespace |-> project, feed |-> feed, log_id |-> event_id]
        data == [title |-> title, description |-> description, emoji |-> emoji]
    IN  Request(API_EDIT_LOG, "PATCH",
                DataWithSchema(data, LogPatchBodySchema),
                DataWithSchema(slugs, LogPatchSlugSchema),
                One(EventSchema), t)

rest_delete_event(project, feed, event_id, t) == delete_log(project, feed, event_id, t)

\* self.client.project: on a Client it is the bound method Client.project, not
\* a namespace; Event passes it to the rest call as `project`.
ClientProject == [k |-> "method", v |-> "Client.project"]

\* What the transport may answer to a request of a handle.
HandleAnswers ==
    {Failed,
     Response(404, Envelope("false", "not_found", Nothing)),
     Response(204, Envelope("true", "", Nothing)),
     Response(200, Envelope("true", "", Record(Good(ProjectSchema, "1")))),
     Response(200, Envelope("true", "", Record(ServerEvent)))}

\* Arguments of Project.edit and Event.edit: a new text, or a number the body
\* schema rejects.
NewNames == {Str("new"), Num("7")}

\* The call of client.rest a handle method makes, with the transport doing `t`.
RestCall(method, a, t) ==
    CASE method = "Project.edit" ->
            rest_edit_project(handles.project.namespace, a.name, t)
      [] method = "Project.delete" ->
            rest_delete_project(handles.project.namespace, t)
      [] method = "Event.edit" ->
            rest_edit_event(ClientProject, handles.event.feed, handles.event.id,
                            a.title, a.description, a.emoji, t)
      [] method = "Event.delete" ->
            rest_delete_event(ClientProject, handles.event.feed, handles.event.id, t)

\* A faulty variant: the assignment is made whether or not the request raised.
project_edit_assign_always(h, name, result) == [h EXCEPT !.name = name]

\* Project.edit after the rest call: self.name = name, reached only if the call
\* returned.
project_edit_assign(h, name, result) ==
    IF result.kind = "raise" THEN h ELSE [h EXCEPT !.name = name]

\* Event.edit after the rest call: title, description and emoji are taken from
\* the returned record, reached only if the call returned.
event_edit_assign(h, result) ==
    IF result.kind = "raise" THEN h
    ELSE [h EXCEPT !.title = result.value.items[1].title,
                   !.description = result.value.items[1].description,
                   !.emoji = result.value.items[1].emoji]

\* delete after the rest call: self.is_deleted = True, reached only if the call
\* returned.
delete_assign(h, result) ==
    IF result.kind = "raise" THEN h ELSE [h EXCEPT !.is_deleted = TRUE]

\* A faulty variant: delete does not look at is_deleted.
delete_refused_never(h) == FALSE

\* The test delete makes before anything else: if self.is_deleted: raise.
delete_refused(h) == h.is_deleted

\* The handle a method belongs to.
HandleOf(method) == IF method \in {"Project.edit", "Project.delete"} THEN "project" ELSE "event"

\* What the handle methods leave alone.
apart == <<pc, op, args, call, sent, response, outcome, deletes, session, tasks>>

\* Thread `th` may enter a handle method.
MayEnter(th) == callers[th].pc = "idle" /\ calls < MaxRequests

\* Thread `th` ends `method` with `result` without having blocked.
Ends(th, method, a, result) ==
    /\ callers' = [callers EXCEPT ![th] =
                      [pc |-> "done", method |-> method, args |-> a, outcome |-> result]]
    /\ UNCHANGED <<calls, tally, handles>>

\* Thread `th` makes the rest call of `method`: it raises before any request,
\* or a request is handed to the transport and the thread blocks.
Enters(th, method, a) ==
    LET r == RestCall(method, a, Failed)
        h == HandleOf(method)
        deleting == method \in {"Project.delete", "Event.delete"}
    IN  IF r.sent = <<>> THEN Ends(th, method, a, r.outcome)
        ELSE /\ callers' = [callers EXCEPT ![th] =
                               [pc |-> "waiting", method |-> method, args |-> a,
                                outcome |-> NoOutcome]]
             /\ calls' = calls + 1
             /\ tally' = IF deleting
                         THEN [tally EXCEPT ![h].requests = @ + 1] ELSE tally
             /\ UNCHANGED handles

\* The rest call of thread `th` ended with `result` and the method ran to its end.
Leaves(th, result) ==
    callers' = [callers EXCEPT ![th] =
                   [pc |-> "done", method |-> callers[th].method,
                    args |-> callers[th].args,
                    outcome |-> IF result.kind = "raise" THEN result
                                ELSE Return(Nothing)]]

\* Project.edit(name), up to the blocking rest call.
ProjectEdit(th) ==
    /\ MayEnter(th)
    /\ \E name \in NewNames : Enters(th, "Project.edit", [name |-> name])
    /\ UNCHANGED apart

\* Project.delete(), up to the blocking rest call.
ProjectDelete(th) ==
    /\ MayEnter(th)
    /\ IF delete_refused(handles.project)
       THEN Ends(th, "Project.delete", EmptyMap, Raise(LawgAlreadyDeleted("project")))
       ELSE Enters(th, "Project.delete", EmptyMap)
    /\ UNCHANGED apart

\* Event.edit(title, description, emoji), up to the blocking rest call.
EventEdit(th) ==
    /\ MayEnter(th)
    /\ \E title \in NewNames :
         Enters(th, "Event.edit",
                [title |-> title, description |-> UNDEFINED, emoji |-> None])
    /\ UNCHANGED apart

\* Event.delete(), up to the blocking rest call.
EventDelete(th) ==
    /\ MayEnter(th)
    /\ IF delete_refused(handles.event)
       THEN Ends(th, "Event.delete", EmptyMap, Raise(LawgAlreadyDeletedError))
       ELSE Enters(th, "Event.delete", EmptyMap)
    /\ UNCHANGED apart

\* The rest call of thread `th` is answered and its method runs to its end:
\* the error propagates, or the assignments that follow the call are made.
Completes(th) ==
    /\ callers[th].pc = "waiting"
    /\ \E t \in HandleAnswers :
         LET method == callers[th].method
             h == HandleOf(method)
             result == RestCall(method, callers[th].args, t).outcome
             deleting == method \in {"Project.delete", "Event.delete"}
         IN  /\ handles' =
                    CASE method = "Project.edit" ->
                            [handles EXCEPT !.project =
                                project_edit_assign(@, callers[th].args.name, result)]
                      [] method = "Project.delete" ->
                            [handles EXCEPT !.project = delete_assign(@, result)]
                      [] method = "Event.edit" ->
                            [handles EXCEPT !.event = event_edit_assign(@, result)]
                      [] method = "Event.delete" ->
                            [handles EXCEPT !.event = delete_assign(@, result)]
             /\ tally' = IF deleting /\ result.kind = "return"
                         THEN [tally EXCEPT ![h].succeeded = @ + 1] ELSE tally
             /\ Leaves(th, result)
    /\ UNCHANGED <<calls, apart>>

\* Thread `th` has the result of its method and is free to call again.
Returned(th) ==
    /\ callers[th].pc = "done"
    /\ callers' = [callers EXCEPT ![th] = NoCaller]
    /\ UNCHANGED <<calls, tally, handles, apart>>

\* No thread is inside a handle method's rest call.
Unblocked == \A th \in Threads : callers[th].pc # "waiting"

\* One call at a time: a method is entered only while no other is in progress.
HandleNext ==
    \E th \in Threads :
        \/ Unblocked /\ ProjectEdit(th)
        \/ Unblocked /\ ProjectDelete(th)
        \/ Unblocked /\ EventEdit(th)
        \/ Unblocked /\ EventDelete(th)
        \/ Completes(th)
        \/ Returned(th)

\* The handles used by one call at a time.
HandleSpec == Init /\ [][HandleNext]_vars

\* Two threads on the same handles, interleaved at the blocking rest call.
ThreadedNext ==
    \E th \in Threads :
        \/ ProjectEdit(th) \/ ProjectDelete(th) \/ EventEdit(th) \/ EventDelete(th)
        \/ Completes(th)
        \/ Returned(th)

ThreadedSpec == Init /\ [][ThreadedNext]_vars

\* ---------------------------------------------------------------- properties

\* The optional, sentinel-defaulted parameters of each edit operation; each is
\* stored in the body under its own name.
PatchFields(o) ==
    IF o = "edit_feed" THEN {"name", "description", "emoji"}
    ELSE IF o = "edit_log" THEN {"title", "description", "emoji"}
    ELSE IF o = "edit_insight" THEN {"title", "description", "emoji", "value"}
    ELSE {}

\* The body or the slug mapping passed to Rest.request fails its schema.
OutboundInvalid ==
    \/ /\ call.body.given
       /\ Offending(call.body.schema, DropUndefined(call.body.data)) # {}
    \/ /\ call.slugs.given
       /\ Offending(call.slugs.schema, call.slugs.data) # {}

\* The transport answered with a status and an envelope.
Answered == sent # <<>> /\ ~response.raised

\* C1: in the body an edit operation hands to the transport, a field whose
\* argument is the sentinel is absent, a field whose argument is None is present
\* with null, a field given a value is present with that value; and no body
\* handed to the transport by any operation holds the sentinel.
C1_SentinelOmitted ==
    pc = "done" =>
        /\ \A i \in DOMAIN sent : \A f \in DOMAIN sent[i].json.map :
               sent[i].json.map[f] # UNDEFINED
        /\ (op \in EditOps /\ sent # <<>>) =>
               /\ sent[1].json.given
               /\ \A f \in PatchFields(op) :
                      /\ args[f] = UNDEFINED => f \notin DOMAIN sent[1].json.map
                      /\ args[f] # UNDEFINED =>
                             /\ f \in DOMAIN sent[1].json.map
                             /\ sent[1].json.map[f] = args[f]

\* edit_log(title=UNDEFINED, description=None, emoji="x") was sent with the body
\* {"description": null, "emoji": "x"}.
C1_Witness ==
    /\ pc = "done"
    /\ op = "edit_log"
    /\ args.title = UNDEFINED
    /\ args.description = None
    /\ args.emoji = Str("x")
    /\ Len(sent) = 1
    /\ sent[1].json = Json([description |-> None, emoji |-> Str("x")])

\* C2: an operation whose body or slug mapping fails validation raises a
\* ValidationError and hands nothing to the transport: the count of network
\* calls is the one before the operation.
C2_InvalidNeverSent ==
    [][(pc' = "done" /\ OutboundInvalid') =>
          /\ outcome'.kind = "raise"
          /\ outcome'.error.type = "ValidationError"
          /\ sent' = <<>>
          /\ calls' = calls]_vars

\* create_project with a null name ended in a ValidationError naming `name`,
\* with no request issued.
C2_Witness ==
    /\ pc = "done"
    /\ op = "create_project"
    /\ args.project_name = None
    /\ args.project = Str("test")
    /\ outcome = Raise(ValidationError({"name"}))
    /\ sent = <<>>

\* C3: an operation of Rest whose outbound validation succeeds hands exactly one
\* request to the transport, also when the transport fails, the status is not
\* 2xx or the response fails validation.
C3_ExactlyOneCall ==
    (pc = "done" /\ op \in RestOps /\ ~OutboundInvalid) => Len(sent) = 1

\* An operation whose transport call failed ended after a single request.
C3_Witness ==
    /\ pc = "done"
    /\ op \in RestOps
    /\ ~OutboundInvalid
    /\ response.raised
    /\ outcome = Raise(TransportError)
    /\ Len(sent) = 1

\* C4: a non-2xx answer ends the operation with an APIError carrying the
\* server's message, or with the generic transport error when there is none;
\* never with a ValidationError, never with a returned record.
C4_Non2xxIsAPIError ==
    (pc = "done" /\ Answered /\ ~Is2xx(response.status)) =>
        /\ response.body.error # "" => outcome = Raise(APIError(response.body.error))
        /\ response.body.error = "" => outcome = Raise(TransportError)
        /\ outcome.kind = "raise"
        /\ outcome.error.type # "ValidationError"

\* A 404 {"success": false, "error": "not_found"} ended in APIError("not_found").
C4_Witness ==
    /\ pc = "done"
    /\ Answered
    /\ response = Response(404, Envelope("false", "not_found", Nothing))
    /\ outcome = Raise(APIError("not_found"))

\* C5: a fetch-many operation answered 2xx with a `data` that is not a list
\* fails with a ValidationError, also when `data` is one valid record.
C5_ManyNeedsList ==
    (pc = "done" /\ op \in FetchManyOps /\ Answered /\ Is2xx(response.status)
       /\ response.body.data.k # "list") =>
        /\ outcome.kind = "raise"
        /\ outcome.error.type = "ValidationError"

\* fetch_logs answered with one valid log record as `data` failed on `data`.
C5_Witness ==
    /\ pc = "done"
    /\ op = "fetch_logs"
    /\ response = Response(200, Envelope("true", "", Record(Good(LogSchema, "1"))))
    /\ outcome = Raise(ValidationError({"data"}))

\* The entity schema of the elements a fetch-many operation expects.
ElementSchema(o) == IF o = "fetch_logs" THEN LogSchema ELSE InsightSchema

\* C6: in many mode every element of the list is validated on its own: one
\* invalid element fails the whole call with a ValidationError and no list is
\* returned; a list of valid elements is returned whole.
C6_ManyAllOrNothing ==
    (pc = "done" /\ op \in FetchManyOps /\ Answered /\ Is2xx(response.status)
       /\ response.body.success = "true" /\ response.body.data.k = "list") =>
        LET items == response.body.data.items
            invalid == {i \in DOMAIN items : Offending(ElementSchema(op), items[i]) # {}}
        IN  /\ invalid # {} =>
                /\ outcome.kind = "raise"
                /\ outcome.error.type = "ValidationError"
                /\ outcome.value = Nothing
            /\ invalid = {} => outcome = Return(List(items))

\* fetch_logs answered with a valid log followed by an invalid one raised and
\* returned nothing.
C6_Witness ==
    /\ pc = "done"
    /\ op = "fetch_logs"
    /\ response = Response(200, Envelope("true", "",
                      List(<<Good(LogSchema, "1"), Bad(LogSchema)>>)))
    /\ outcome = Raise(ValidationError({"id"}))
    /\ outcome.value = Nothing

\* The slug mapping has an entry for every placeholder of the template.
SlugsComplete == Placeholders(call.url) \subseteq DOMAIN call.slugs.data

\* C7: the URL of a request handed to the transport is the template with every
\* placeholder replaced, once, by the escaped value of its slug, literal text
\* kept, and no placeholder left; an operation whose slug mapping lacks an entry
\* for a placeholder fails and hands nothing to the transport.
C7_UrlRendered ==
    pc = "done" =>
        /\ \A n \in DOMAIN sent :
               /\ SlugsComplete
               /\ Len(sent[n].url) = Len(call.url)
               /\ \A i \in DOMAIN call.url :
                      IF call.url[i].k = "ph"
                      THEN sent[n].url[i] = Val(Escape(call.slugs.data[call.url[i].s].v))
                      ELSE sent[n].url[i] = call.url[i]
               /\ Placeholders(sent[n].url) = {}
        /\ ~SlugsComplete => (outcome.kind = "raise" /\ sent = <<>>)

\* edit_log on project "a b", feed "news", log "1" was sent to
\* /projects/a%20b/feeds/news/logs/1.
C7_Witness ==
    /\ pc = "done"
    /\ op = "edit_log"
    /\ args.project = Str("a b")
    /\ Len(sent) = 1
    /\ sent[1].url = <<Lit("/projects/"), Val("a%20b"), Lit("/feeds/"), Val("news"),
                       Lit("/logs/"), Val("1")>>

\* C8: a GET or DELETE request is handed to the transport without a JSON body;
\* a POST or PATCH request carries the validated mapping.
C8_NoBodyOnGetDelete ==
    pc = "done" =>
        \A i \in DOMAIN sent :
            /\ sent[i].method \in {"GET", "DELETE"} => ~sent[i].json.given
            /\ sent[i].method \in {"POST", "PATCH"} =>
                   sent[i].json = Json(DropUndefined(call.body.data))

\* Every argument of the operation is a non-empty string.
ArgsAreSlugs == \A a \in DOMAIN args : args[a].k = "str" /\ args[a].v # ""

\* C9: a delete operation called with its slugs hands one DELETE request without
\* a body to the transport, expects no payload, and on a 2xx {"success": true}
\* without `data` returns nothing and raises nothing.
C9_DeleteReturnsNothing ==
    (pc = "done" /\ op \in DeleteOps /\ ArgsAreSlugs) =>
        /\ ~call.body.given
        /\ ~call.response_schema.given
        /\ Len(sent) = 1
        /\ sent[1].method = "DELETE"
        /\ ~sent[1].json.given
        /\ (~response.raised /\ Is2xx(response.status)
              /\ response.body = Envelope("true", "", Nothing)) =>
               outcome = Return(Nothing)

\* C10: the error an operation ends with is the error that arose inside it: the
\* one prepare_request raised, the transport's, or the one prepare_response
\* raised; and an operation that raised carries no value.
C10_ErrorsPropagate ==
    pc = "done" =>
        LET prep == prepare_request(call.url, call.body, call.slugs)
            unwrapped == prepare_response(response, call.response_schema)
        IN  /\ ~prep.ok => outcome = Raise(prep.error)
            /\ (prep.ok /\ response.raised) => outcome = Raise(TransportError)
            /\ (prep.ok /\ ~response.raised /\ unwrapped.kind = "raise") =>
                   outcome = unwrapped
            /\ outcome.kind = "raise" => outcome.value = Nothing

\* fetch_project answered 200 with a record that lacks its id ended in the
\* ValidationError of the entity schema.
C10_Witness ==
    /\ pc = "done"
    /\ op = "fetch_project"
    /\ args.project = Str("test")
    /\ response = Response(200, Envelope("true", "", Record(Bad(ProjectSchema))))
    /\ outcome = Raise(ValidationError({"id"}))

\* Every sentinel-defaulted parameter of the edit operation was left at the
\* sentinel, and every other argument is a non-empty string.
AllSentinel ==
    /\ op \in EditOps
    /\ \A a \in DOMAIN args :
         IF a \in PatchFields(op) THEN args[a] = UNDEFINED
         ELSE args[a].k = "str" /\ args[a].v # ""

\* C14: an edit operation called with every optional field left at the sentinel
\* passes validation and hands exactly one PATCH request to the transport, whose
\* body is the empty mapping.
C14_EmptyEditStillSent ==
    (pc = "done" /\ AllSentinel) =>
        /\ Len(sent) = 1
        /\ sent[1].method = "PATCH"
        /\ sent[1].json = Json(EmptyMap)
        /\ calls >= 1
        /\ outcome = (IF response.raised THEN Raise(TransportError)
                      ELSE prepare_response(response, call.response_schema))

\* edit_insight("test", "1") with nothing to change sent PATCH with body {} and
\* returned the record the server answered with.
C14_Witness ==
    /\ pc = "done"
    /\ op = "edit_insight"
    /\ AllSentinel
    /\ Len(sent) = 1
    /\ sent[1].method = "PATCH"
    /\ sent[1].json = Json(EmptyMap)
    /\ outcome = Return(Record(Good(InsightSchema, "1")))

\* The transport answered 2xx with {"success": true, ...}.
Succeeded == Answered /\ Is2xx(response.status) /\ response.body.success = "true"

\* The `data` of the answer is what the response schema of the call accepts: one
\* record, or a list in many mode, each record valid.
DataAccepted ==
    /\ response.body.data.k = (IF call.response_schema.many THEN "list" ELSE "record")
    /\ BadItems(call.response_schema.schema, response.body.data.items) = {}

\* C16: after a 2xx answer with a valid envelope, an operation that has a
\* response schema returns the loaded content of `data` (a record, or a list in
\* many mode) and never the envelope: no returned record has a `success` key.
\* For the project operations this is what BaseClient._validate_project_response
\* returns for the same envelope.
C16_ReturnsData ==
    (pc = "done" /\ Succeeded /\ call.response_schema.given) =>
        LET data == response.body.data
            schema == call.response_schema.schema
        IN  /\ DataAccepted =>
                  /\ outcome = Return([k |-> data.k,
                                       items |-> [i \in DOMAIN data.items |->
                                                     Load(schema, data.items[i])]])
                  /\ schema = ProjectSchema =>
                         outcome = validate_project_response(response.body)
            /\ ~DataAccepted => outcome.kind = "raise"
            /\ \A i \in DOMAIN outcome.value.items :
                  "success" \notin DOMAIN outcome.value.items[i]

\* create_project("test", "test") answered 200 with data {id: "1", ...} returned
\* the record whose id is "1".
C16_Witness ==
    /\ pc = "done"
    /\ op = "create_project"
    /\ args = [project |-> Str("test"), project_name |-> Str("test")]
    /\ response = Response(200, Envelope("true", "", Record(Good(ProjectSchema, "1"))))
    /\ outcome.kind = "return"
    /\ outcome.value.k = "record"
    /\ outcome.value.items[1].id = Str("1")

\* The names of the slug entries the operation passed to Rest.request.
SlugsSupplied == IF call.slugs.given THEN DOMAIN call.slugs.data ELSE {}

\* The slug entries the endpoint of each single-entity operation names.
SlugsOfEndpoint(o) ==
    IF o \in {"fetch_project", "edit_project", "delete_project", "client_edit_project"}
    THEN {"namespace"}
    ELSE IF o \in {"edit_feed", "delete_feed"} THEN {"namespace", "feed"}
    ELSE IF o \in {"fetch_log", "edit_log", "delete_log"}
    THEN {"namespace", "feed", "log_id"}
    ELSE IF o \in {"fetch_insight", "edit_insight", "delete_insight"}
    THEN {"namespace", "insight_id"}
    ELSE Placeholders(call.url)

\* C17: every operation passes exactly the slug entries the path template of
\* its call names (namespace for project fetch/edit/delete; namespace and feed
\* for feed edit/delete; namespace, feed and log_id for a single log; namespace
\* and insight_id for a single insight), so the template of a single-entity
\* fetch holds the id placeholder and every project edit passes namespace as a
\* slug.
C17_SlugsMatchTemplate ==
    pc = "done" =>
        /\ SlugsSupplied = Placeholders(call.url)
        /\ SlugsSupplied = SlugsOfEndpoint(op)
        /\ op = "fetch_insight" => "insight_id" \in Placeholders(call.url)
        /\ op \in {"edit_project", "client_edit_project"} => "namespace" \in SlugsSupplied

\* The delete call was given non-empty strings for all its slugs.
WellAddressed(d) == \A a \in DOMAIN d.args : d.args[a].k = "str" /\ d.args[a].v # ""

\* What a delete surfaces of the transport's answer `t`.
Surfaced(t) ==
    IF t.raised THEN Raise(TransportError) ELSE prepare_response(t, NoResponseSchema)

\* C12: in any run of core delete calls (delete_project, delete_feed,
\* delete_log, delete_insight), whatever came before, each call with its slugs
\* hands its own DELETE request to the transport and ends with what the server
\* answered to it; n such calls issue n requests.
C12_DeletesRepeat ==
    /\ \A i \in DOMAIN deletes :
          WellAddressed(deletes[i]) =>
              /\ Len(deletes[i].sent) = 1
              /\ deletes[i].sent[1].method = "DELETE"
              /\ deletes[i].outcome = Surfaced(deletes[i].response)
    /\ calls = Cardinality({i \in DOMAIN deletes : WellAddressed(deletes[i])})

\* The request the operation of task `k` hands to the transport, computed from
\* its own arguments and the session as constructed.
OwnRequest(k) ==
    LET r == Perform(k.op, k.args, Failed)
    IN  IF r.sent = <<>> THEN <<>>
        ELSE <<[method |-> r.sent[1].method, url |-> r.sent[1].url,
                json |-> r.sent[1].json, headers |-> NewSession.headers]>>

\* How the operation of task `k` ends, computed from its own arguments and the
\* answer to its own request.
OwnOutcome(k) ==
    IF k.sent = <<>> THEN Perform(k.op, k.args, Failed).outcome
    ELSE Perform(k.op, k.args, k.response).outcome

\* C13: with threads interleaved on one client, the request each operation
\* hands to the transport and the way it ends are those of its own arguments
\* and its own answer; the shared session stays as constructed; and a thread
\* never waits on another: an idle thread can call and a blocked thread can be
\* answered whatever the other thread is doing.
C13_ThreadsIndependent ==
    /\ session = NewSession
    /\ \A th \in Threads :
          LET k == tasks[th]
          IN  /\ k.pc \in {"waiting", "done"} => k.sent = OwnRequest(k)
              /\ k.pc = "done" => k.outcome = OwnOutcome(k)
              /\ k.pc = "waiting" => ENABLED Answer(th)
              /\ (k.pc = "idle" /\ calls < MaxCalls) => ENABLED Call(th)

\* Both threads are blocked in the transport at once, one in create_project and
\* one in an edit_log that changes nothing, each with its own request.
C13_Witness ==
    /\ tasks["t1"].pc = "waiting"
    /\ tasks["t1"].op = "create_project"
    /\ tasks["t1"].sent[1].url = <<Lit("/projects")>>
    /\ tasks["t1"].sent[1].json.map =
           [namespace |-> Str("test"), name |-> Str("test")]
    /\ tasks["t2"].pc = "waiting"
    /\ tasks["t2"].op = "edit_log"
    /\ tasks["t2"].sent[1].method = "PATCH"
    /\ tasks["t2"].sent[1].json.map = [emoji |-> None]
    /\ tasks["t2"].sent[1].headers = NewSession.headers

\* Thread `th` enters a handle method in this step.
Entering(th) == callers[th].pc = "idle" /\ callers'[th].pc # "idle"

\* The handle of the method thread `th` enters is marked deleted.
OnDeleted(th) == handles[HandleOf(callers'[th].method)].is_deleted

\* The method thread `th` entered raised the already-deleted error at once,
\* without a request.
Refused(th) ==
    /\ callers'[th].pc = "done"
    /\ callers'[th].outcome.kind = "raise"
    /\ callers'[th].outcome.error \in AlreadyDeletedErrors
    /\ calls' = calls

\* C11: every method (edit as well as delete) entered on a Project or Event
\* handle whose is_deleted is true raises the already-deleted error and hands no
\* request to the transport.
C11_DeletedHandleRefuses ==
    [][\A th \in Threads : (Entering(th) /\ OnDeleted(th)) => Refused(th)]_vars

\* The delete method of handle `h`.
DeleteOf(h) == IF h = "project" THEN "Project.delete" ELSE "Event.delete"

\* In this step the rest call of thread `th` returned without error and the
\* method ran to its end.
Succeeds(th) ==
    /\ callers[th].pc = "waiting"
    /\ callers'[th].pc = "done"
    /\ callers'[th].outcome.kind = "return"

\* C18: with one call at a time on a handle, is_deleted becomes true only in the
\* step in which a delete request returned without error; once true it stays
\* true; every delete() entered after that raises the already-deleted error
\* without a request; so at most one delete request of a handle ever succeeds.
C18_DeletedOnce ==
    [][\A h \in Handles :
          /\ (~handles[h].is_deleted /\ handles'[h].is_deleted) =>
                 \E th \in Threads : callers[th].method = DeleteOf(h) /\ Succeeds(th)
          /\ handles[h].is_deleted => handles'[h].is_deleted
          /\ \A th \in Threads :
                 (Entering(th) /\ callers'[th].method = DeleteOf(h) /\ OnDeleted(th))
                     => Refused(th)
          /\ tally'[h].succeeded <= 1]_vars

\* project.delete() succeeded once; a later project.delete() raised
\* LawgAlreadyDeleted and no second request was issued.
C18_Witness ==
    /\ handles.project.is_deleted
    /\ tally.project = [requests |-> 1, succeeded |-> 1]
    /\ calls = 1
    /\ \E th \in Threads :
          /\ callers[th].pc = "done"
          /\ callers[th].method = "Project.delete"
          /\ callers[th].outcome = Raise(LawgAlreadyDeleted("project"))

\* The delete() thread `th` enters is not stopped by the flag: it makes its rest
\* call, which raises what the call raises before a request, or hands the
\* request to the transport; Project.delete hands it to the transport.
Retried(th) ==
    LET r == RestCall(callers'[th].method, callers'[th].args, Failed)
    IN  /\ IF r.sent = <<>>
           THEN callers'[th].pc = "done" /\ callers'[th].outcome = r.outcome
                /\ calls' = calls
           ELSE callers'[th].pc = "waiting" /\ calls' = calls + 1
        /\ callers'[th].method = "Project.delete" => callers'[th].pc = "waiting"

\* C19: with one call at a time, a handle method that ends in an error leaves
\* every field of the handles as it was; the fields change only in a step in
\* which the rest call returned without error; and a delete() entered while
\* is_deleted is false (as after a failed delete) makes its rest call again.
C19_FailureKeepsFields ==
    [][/\ \A th \in Threads :
            /\ (callers[th].pc # "done" /\ callers'[th].pc = "done"
                   /\ callers'[th].outcome.kind = "raise") => handles' = handles
            /\ (Entering(th) /\ callers'[th].method \in {"Project.delete", "Event.delete"}
                   /\ ~OnDeleted(th)) => Retried(th)
       /\ handles' # handles => \E th \in Threads : Succeeds(th)]_vars

\* event.edit(title="new") raised the validation error of its rest call and the
\* event kept its title, description and emoji; project.delete() failed once,
\* was called again and issued its request again, and the project is still not
\* marked deleted.
C19_Witness ==
    /\ callers["t1"].pc = "done"
    /\ callers["t1"].method = "Event.edit"
    /\ callers["t1"].args.title = Str("new")
    /\ callers["t1"].outcome = Raise(ValidationError({"namespace"}))
    /\ handles.event = NewEvent
    /\ callers["t2"].pc = "waiting"
    /\ callers["t2"].method = "Project.delete"
    /\ tally.project = [requests |-> 2, succeeded |-> 0]
    /\ handles.project = NewProject

\* The threads that passed the is_deleted test of handle `h` and are in its
\* delete request.
InDelete(h) ==
    {th \in Threads : callers[th].pc = "waiting" /\ callers[th].method = DeleteOf(h)}

\* C20: with two threads in delete() on one handle, at most one of them is past
\* the is_deleted test with its delete request issued, and at most one delete
\* request of the handle succeeds.
C20_DeleteExclusive ==
    \A h \in Handles :
        /\ Cardinality(InDelete(h)) <= 1
        /\ tally[h].succeeded <= 1

====
